---- MODULE Spec2Model ----
(***************************************************************************)
(* A model of src/src/graph.py: the Graph constructor and                  *)
(* Graph.calculate_shortest_paths, with the _Path family (Edge,            *)
(* _PathSequence, _PathAlternatives), the _PathRef cells and expand().     *)
(*                                                                         *)
(* Objects.  A path is a record; the records of the three classes carry    *)
(* the fields of the classes.  A _PathRef is an index into the sequence    *)
(* `cells`; cells[i] is the path the i-th created _PathRef holds now.      *)
(* Paths are immutable and refer to other paths only through _PathRef      *)
(* cells, so a path record holds cell indices and never a nested path.     *)
(*                                                                         *)
(* The priority queue (queue.PriorityQueue, ordered by _Path.__lt__, that  *)
(* is by get_distance() alone) is the set of the paths on it; get_nowait   *)
(* returns some path of least distance.  Which of several paths of equal   *)
(* distance the library's heap returns is left open: every choice is a     *)
(* behaviour of the model.                                                 *)
(***************************************************************************)
EXTENDS Integers, Sequences, FiniteSets, TLC

\* ------------------------------------------------------------- bounds
\* Vertices are the labels 1..NumVertices.
NumVertices == 4
\* The edge list holds at most MaxEdges edges.
MaxEdges == 4
\* Edge weights are 0..MaxWeight (Spec) or -NegWeight..MaxWeight (SpecAnyWeight).
MaxWeight == 1
NegWeight == 1
\* The lists SpecCtor gives the constructor hold at most MaxListLen entries.
MaxListLen == 2

Vertex == 1..NumVertices
Weights == 0..MaxWeight
AnyWeights == (0 - NegWeight)..MaxWeight

\* The value of `start` before the call: no vertex (the labels are 1, 2, ...).
NoVertex == 0

VARIABLES
    vertices,           \* Graph._vertices: the list given to the constructor
    edges,              \* Graph._edges: the list given to the constructor
    vertices_set,       \* Graph._vertices_set
    outgoing,           \* Graph._vertices_outgoing_edges (a defaultdict(list))
    pc,                 \* where the program is: "new", "ctor_failed", "ready",
                        \* "loop", "failed", "done"
    start,              \* the argument of calculate_shortest_paths
    shortest_paths,     \* the local dict vertex -> _PathRef (a cell index)
    cells,              \* the _PathRef objects created so far, by index
    queue,              \* the local next_path_by_distance
    ret,                \* the returned dict vertex -> _Path; the empty map
                        \* as long as nothing is returned (a returned map
                        \* holds at least the key start)
    npush,              \* how many paths were put on the queue so far
    npop,               \* how many paths were taken from the queue so far
    other               \* a second calculate_shortest_paths invocation on
                        \* the same Graph: its argument, its locals, its
                        \* position and the _PathRef objects it created

vars == <<vertices, edges, vertices_set, outgoing, pc, start, shortest_paths,
          cells, queue, ret, npush, npop, other>>

graph_vars == <<vertices, edges, vertices_set, outgoing>>

\* ------------------------------------------------------------ helpers
Range(s) == {s[i] : i \in DOMAIN s}

EmptyMap == [x \in {} |-> 0]

\* One invocation of calculate_shortest_paths: where it is, its argument,
\* its locals shortest_paths and next_path_by_distance, the map it returned
\* and the _PathRef objects (indices of cells) it created.
Invocation(at, s, sp, q, r, refs) ==
    [pc |-> at, start |-> s, shortest_paths |-> sp, queue |-> q, ret |-> r,
     refs |-> refs]

\* An invocation that was not made.
NotCalled == Invocation("ready", NoVertex, EmptyMap, {}, EmptyMap, {})

\* ------------------------------------------------------- Edge (a _Path)
Edge(source_vertex, destination_vertex, distance) ==
    [type |-> "Edge", source_vertex |-> source_vertex,
     destination_vertex |-> destination_vertex, distance |-> distance]

\* -------------------------------------------- the _Path methods, by class
RECURSIVE GetSourceVertex(_, _)
GetSourceVertex(c, p) ==
    CASE p.type = "Edge" -> p.source_vertex
      [] p.type = "PathSequence" -> GetSourceVertex(c, c[p.base_path_ref])
      [] p.type = "PathAlternatives" -> GetSourceVertex(c, c[p.path1])

RECURSIVE GetDestinationVertex(_, _)
GetDestinationVertex(c, p) ==
    CASE p.type = "Edge" -> p.destination_vertex
      [] p.type = "PathSequence" -> p.added_edge.destination_vertex
      [] p.type = "PathAlternatives" -> GetDestinationVertex(c, c[p.path1])

RECURSIVE GetDistance(_, _)
GetDistance(c, p) ==
    CASE p.type = "Edge" -> p.distance
      [] p.type = "PathSequence" -> p.distance
      [] p.type = "PathAlternatives" -> GetDistance(c, c[p.path1])

\* _PathSequence.__init__: the assertion, and the object it builds.
PathSequenceAssert(c, base_path_ref, added_edge) ==
    GetDestinationVertex(c, c[base_path_ref]) = added_edge.source_vertex

\* (mutant of PathSequence) the cached distance leaves out the base path.
PathSequenceEdgeOnly(c, base_path_ref, added_edge) ==
    [type |-> "PathSequence", base_path_ref |-> base_path_ref,
     added_edge |-> added_edge, distance |-> added_edge.distance]

PathSequence(c, base_path_ref, added_edge) ==
    [type |-> "PathSequence", base_path_ref |-> base_path_ref,
     added_edge |-> added_edge,
     distance |-> GetDistance(c, c[base_path_ref]) + added_edge.distance]

\* _PathAlternatives.__init__: the assertions, and the object it builds.
PathAlternativesAssert(c, path1, path2) ==
    /\ GetSourceVertex(c, c[path1]) = GetSourceVertex(c, c[path2])
    /\ GetDestinationVertex(c, c[path1]) = GetDestinationVertex(c, c[path2])
    /\ GetDistance(c, c[path1]) = GetDistance(c, c[path2])

\* (mutant of PathAlternatives) the second path is dropped: both members
\* are the first.
PathAlternativesFirstTwice(path1, path2) ==
    [type |-> "PathAlternatives", path1 |-> path1, path2 |-> path1]

PathAlternatives(path1, path2) ==
    [type |-> "PathAlternatives", path1 |-> path1, path2 |-> path2]

\* ------------------------------------------------------------ expand()
\* The cells a path's expand() reads, directly or through other paths.
RefsOf(p) ==
    CASE p.type = "Edge" -> {}
      [] p.type = "PathSequence" -> {p.base_path_ref}
      [] p.type = "PathAlternatives" -> {p.path1, p.path2}

RECURSIVE ReachFrom(_, _, _)
ReachFrom(c, seen, frontier) ==
    IF frontier = {} THEN seen
    ELSE LET next == UNION {RefsOf(c[i]) : i \in frontier}
         IN  ReachFrom(c, seen \cup frontier, next \ (seen \cup frontier))

ReachableCells(c, p) == ReachFrom(c, {}, RefsOf(p))

\* A cell whose content reaches the cell again: expand() of anything that
\* reaches such a cell goes on yielding (the generators recurse without end).
OnCycle(c, i) == i \in ReachableCells(c, c[i])

ExpandIsFinite(c, p) == \A i \in ReachableCells(c, p) : ~OnCycle(c, i)

\* (mutant of PathYielder) the source of the added edge is yielded.
PathYielderSource(g, added_edge) == Append(g, added_edge.source_vertex)

\* (mutant of PathYielder) the base sequence is not yielded.
PathYielderNoBase(g, added_edge) == <<added_edge.destination_vertex>>

\* _PathSequence.expand's path_yielder (lines 209-213): the base sequence,
\* then the destination of the added edge.
PathYielder(g, added_edge) == Append(g, added_edge.destination_vertex)

\* The sequences expand() yields, in the order it yields them, that need at
\* most `depth` nested expand() calls.  For a path with ExpandIsFinite and
\* depth > Len(c) these are all the sequences expand() yields.
RECURSIVE ExpandTo(_, _, _)
ExpandTo(c, p, depth) ==
    IF depth = 0 THEN <<>>
    ELSE CASE p.type = "Edge" -> << <<p.destination_vertex>> >>
           [] p.type = "PathSequence" ->
                LET base == ExpandTo(c, c[p.base_path_ref], depth - 1)
                IN  [i \in 1..Len(base) |-> PathYielder(base[i], p.added_edge)]
           [] p.type = "PathAlternatives" ->
                ExpandTo(c, c[p.path1], depth - 1)
                    \o ExpandTo(c, c[p.path2], depth - 1)

Expand(c, p) == ExpandTo(c, p, Len(c) + 1)

\* The sequences of at most `longest` labels among those expand() yields, in
\* the order it yields them, also where it does not end: every cycle of
\* cells leads through a _PathSequence, which adds a label.
RECURSIVE ExpandWithin(_, _, _)
ExpandWithin(c, p, longest) ==
    IF longest = 0 THEN <<>>
    ELSE CASE p.type = "Edge" -> << <<p.destination_vertex>> >>
           [] p.type = "PathSequence" ->
                LET base == ExpandWithin(c, c[p.base_path_ref], longest - 1)
                IN  [i \in 1..Len(base) |-> PathYielder(base[i], p.added_edge)]
           [] p.type = "PathAlternatives" ->
                ExpandWithin(c, c[p.path1], longest)
                    \o ExpandWithin(c, c[p.path2], longest)

\* ------------------------------------------------------- Graph.__init__
\* The loop of lines 303-305 raises iff some label occurs twice.
NoDuplicateVertex(vs) ==
    \A i, j \in DOMAIN vs : i # j => vs[i] # vs[j]

\* (mutant of EdgeTuple) the weight is part of the tuple.
EdgeTupleWithDistance(e) ==
    <<e.source_vertex, e.destination_vertex, e.distance>>

\* The loop of lines 309-314 raises iff two edges have the same
\* (source, destination) tuple.
EdgeTuple(e) == <<e.source_vertex, e.destination_vertex>>

NoDuplicateEdge(es) ==
    \A i, j \in DOMAIN es : i # j => EdgeTuple(es[i]) # EdgeTuple(es[j])

\* Lines 317-319: source vertex -> its edges in list order; only vertices
\* with an outgoing edge become keys.
SelectEdges(es, v) == SelectSeq(es, LAMBDA e : e.source_vertex = v)

OutgoingEdges(es) ==
    [v \in {es[i].source_vertex : i \in DOMAIN es} |-> SelectEdges(es, v)]

GraphInit ==
    /\ pc = "new"
    /\ IF NoDuplicateVertex(vertices) /\ NoDuplicateEdge(edges)
       THEN /\ vertices_set' = Range(vertices)
            /\ outgoing' = OutgoingEdges(edges)
            /\ pc' = "ready"
       ELSE \* an AssertionError leaves no Graph
            /\ UNCHANGED <<vertices_set, outgoing>>
            /\ pc' = "ctor_failed"
    /\ UNCHANGED <<vertices, edges, start, shortest_paths, cells, queue, ret,
                   npush, npop, other>>

\* ------------------------------------- Graph.calculate_shortest_paths
\* Line 334: self._vertices_outgoing_edges.get(start, []) reads the index
\* without adding a key.
OutgoingGet(out, v) == IF v \in DOMAIN out THEN out[v] ELSE <<>>

\* Line 377: self._vertices_outgoing_edges[vertex] on a defaultdict(list)
\* adds the key with an empty list when it is absent.
OutgoingIndex(out, v) ==
    IF v \in DOMAIN out THEN out ELSE out @@ (v :> <<>>)

\* (mutant of SeedPaths) the seeds are built like every later path: as a
\* _PathSequence on the cell of the start vertex.
SeedPathsOnStartCell(seed) ==
    {PathSequence(<<Edge(e.source_vertex, e.source_vertex, 0)>>, 1, e) :
        e \in Range(seed)}

\* (mutant of IsMember) the assertion is not evaluated.
IsMemberUnchecked(s, vs) == TRUE

\* Line 326: start in self._vertices.
IsMember(s, vs) == s \in Range(vs)

\* (mutant of SeedPaths) only the first outgoing edge of the start vertex
\* goes on the queue.
SeedPathsFirstOnly(seed) == {seed[i] : i \in DOMAIN seed \cap {1}}

\* Lines 334-336: the Edge objects of the start vertex go on the queue as
\* they are.
SeedPaths(seed) == Range(seed)

\* Lines 326-339: the membership assertion, the seeding of the queue and the
\* implicit path of the start vertex.
CalculateShortestPaths(s) ==
    /\ pc = "ready"
    /\ start' = s
    /\ IF IsMember(s, vertices)
       THEN LET seed == OutgoingGet(outgoing, s)
            IN  /\ queue' = SeedPaths(seed)
                /\ npush' = Len(seed)
                /\ cells' = <<Edge(s, s, 0)>>
                /\ shortest_paths' = (s :> 1)
                /\ pc' = "loop"
       ELSE \* AssertionError("unexpected vertex")
            /\ pc' = "failed"
            /\ UNCHANGED <<queue, npush, cells, shortest_paths>>
    /\ UNCHANGED <<graph_vars, ret, npop, other>>

\* (mutant of IsNext) the queue returns its paths in no particular order.
IsNextUnordered(c, q, p) == p \in q

\* queue.PriorityQueue.get_nowait: a path no other queued path is less than.
IsNext(c, q, p) ==
    /\ p \in q
    /\ \A o \in q : ~(GetDistance(c, o) < GetDistance(c, p))

\* Line 356: the popped path ties with the recorded one.
IsAlternative(existing_distance, next_distance) ==
    existing_distance = next_distance

\* (mutant of PopSeen) the tie is recorded without existing_path_ref.copy():
\* the new _PathAlternatives holds the cell that it is put into.
PopSeenWithoutCopy(next_path, vertex) ==
    LET existing_path_ref == shortest_paths[vertex]
        existing_distance == GetDistance(cells, cells[existing_path_ref])
        next_distance == GetDistance(cells, next_path)
        next_ref == Len(cells) + 1
    IN  IF ~(existing_distance <= next_distance)
        THEN /\ pc' = "failed"
             /\ UNCHANGED cells
        ELSE IF IsAlternative(existing_distance, next_distance)
        THEN /\ cells' = [Append(cells, next_path) EXCEPT
                              ![existing_path_ref] =
                                  PathAlternatives(existing_path_ref, next_ref)]
             /\ pc' = "loop"
        ELSE /\ UNCHANGED cells
             /\ pc' = "loop"

\* (mutant of PopSeen) the assertion of line 355 is not evaluated.
PopSeenUnasserted(next_path, vertex) ==
    LET existing_path_ref == shortest_paths[vertex]
        existing_path == cells[existing_path_ref]
        copy_ref == Len(cells) + 1
        next_ref == Len(cells) + 2
        with_refs == cells \o <<existing_path, next_path>>
    IN  IF IsAlternative(GetDistance(cells, existing_path),
                         GetDistance(cells, next_path))
        THEN /\ cells' = [with_refs EXCEPT ![existing_path_ref] =
                              PathAlternatives(copy_ref, next_ref)]
             /\ pc' = "loop"
        ELSE /\ UNCHANGED cells
             /\ pc' = "loop"

\* Lines 353-367: the destination of the popped path has an entry.
PopSeen(next_path, vertex) ==
    LET existing_path_ref == shortest_paths[vertex]
        existing_path == cells[existing_path_ref]
        existing_distance == GetDistance(cells, existing_path)
        next_distance == GetDistance(cells, next_path)
        copy_ref == Len(cells) + 1
        next_ref == Len(cells) + 2
        with_refs == cells \o <<existing_path, next_path>>
    IN  IF ~(existing_distance <= next_distance)
        THEN \* the assertion of line 355 fails
             /\ pc' = "failed"
             /\ UNCHANGED cells
        ELSE IF IsAlternative(existing_distance, next_distance)
        THEN IF PathAlternativesAssert(with_refs, copy_ref, next_ref)
             THEN /\ cells' = [with_refs EXCEPT ![existing_path_ref] =
                                   PathAlternatives(copy_ref, next_ref)]
                  /\ pc' = "loop"
             ELSE \* an assertion of _PathAlternatives.__init__ fails
                  /\ cells' = with_refs
                  /\ pc' = "failed"
        ELSE /\ UNCHANGED cells
             /\ pc' = "loop"

\* Lines 377-382: one _PathSequence per outgoing edge of the settled vertex.
\* (mutant of NewPaths) only the first outgoing edge is followed.
NewPathsFirstOnly(c, path_ref, out_edges) ==
    {PathSequence(c, path_ref, out_edges[i]) : i \in DOMAIN out_edges \cap {1}}

NewPaths(c, path_ref, out_edges) ==
    {PathSequence(c, path_ref, out_edges[i]) : i \in DOMAIN out_edges}

\* (mutant of IsSettled) only a vertex other than the first key counts.
IsSettledNotFirst(sp, vertex) ==
    vertex \in DOMAIN sp /\ sp[vertex] # 1

\* Line 351: vertex in shortest_paths.
IsSettled(sp, vertex) == vertex \in DOMAIN sp

\* Lines 346-382: one iteration of the while loop.
Pop ==
    /\ pc = "loop"
    /\ queue # {}
    /\ \E next_path \in queue :
         /\ IsNext(cells, queue, next_path)
         /\ npop' = npop + 1
         /\ LET vertex == GetDestinationVertex(cells, next_path)
            IN  IF IsSettled(shortest_paths, vertex)
                THEN /\ PopSeen(next_path, vertex)
                     /\ queue' = queue \ {next_path}
                     /\ UNCHANGED <<shortest_paths, outgoing, npush>>
                ELSE LET path_ref == Len(cells) + 1
                         new_cells == Append(cells, next_path)
                         new_outgoing == OutgoingIndex(outgoing, vertex)
                         out_edges == new_outgoing[vertex]
                     IN  /\ cells' = new_cells
                         /\ shortest_paths' =
                                shortest_paths @@ (vertex :> path_ref)
                         /\ outgoing' = new_outgoing
                         /\ IF \A i \in DOMAIN out_edges :
                                  PathSequenceAssert(new_cells, path_ref,
                                                     out_edges[i])
                            THEN /\ queue' = (queue \ {next_path}) \cup
                                       NewPaths(new_cells, path_ref, out_edges)
                                 /\ npush' = npush + Len(out_edges)
                                 /\ pc' = "loop"
                            ELSE \* the assertion of _PathSequence.__init__
                                 /\ queue' = queue \ {next_path}
                                 /\ UNCHANGED npush
                                 /\ pc' = "failed"
    /\ UNCHANGED <<vertices, edges, vertices_set, start, ret, other>>

\* Lines 385-388: unpack the path refs.
Unpack(c, sp) == [k \in DOMAIN sp |-> c[sp[k]]]

Return ==
    /\ pc = "loop"
    /\ queue = {}
    /\ ret' = Unpack(cells, shortest_paths)
    /\ pc' = "done"
    /\ UNCHANGED <<graph_vars, start, shortest_paths, cells, queue, npush,
                   npop, other>>

\* ------------------------------------ the steps, as functions of the state
\* The same statements as functions: from the adjacency index `out`, the
\* _PathRef objects `c` and the invocation `m` to what the three are after
\* the step.  The second invocation takes its steps through them.

\* (mutant of CallOf) the implicit path of the start vertex is kept in the
\* first _PathRef there is, and a new one is created only when there is none.
CallOfSharedCell(out, c, vs, s) ==
    IF IsMember(s, vs)
    THEN [inv |-> Invocation("loop", s, (s :> 1),
                             SeedPaths(OutgoingGet(out, s)), EmptyMap, {1}),
          cells |-> IF c = <<>> THEN <<Edge(s, s, 0)>> ELSE c,
          outgoing |-> out]
    ELSE [inv |-> Invocation("failed", s, EmptyMap, {}, EmptyMap, {}),
          cells |-> c,
          outgoing |-> out]

\* Lines 326-339.
CallOf(out, c, vs, s) ==
    IF IsMember(s, vs)
    THEN [inv |-> Invocation("loop", s, (s :> Len(c) + 1),
                             SeedPaths(OutgoingGet(out, s)), EmptyMap,
                             {Len(c) + 1}),
          cells |-> Append(c, Edge(s, s, 0)),
          outgoing |-> out]
    ELSE [inv |-> Invocation("failed", s, EmptyMap, {}, EmptyMap, {}),
          cells |-> c,
          outgoing |-> out]

\* Lines 353-367.
PopSeenOf(out, c, m, next_path, vertex) ==
    LET existing_path_ref == m.shortest_paths[vertex]
        existing_path == c[existing_path_ref]
        existing_distance == GetDistance(c, existing_path)
        next_distance == GetDistance(c, next_path)
        copy_ref == Len(c) + 1
        next_ref == Len(c) + 2
        with_refs == c \o <<existing_path, next_path>>
        popped == [m EXCEPT !.queue = @ \ {next_path}]
    IN  IF ~(existing_distance <= next_distance)
        THEN [inv |-> [popped EXCEPT !.pc = "failed"],
              cells |-> c, outgoing |-> out]
        ELSE IF IsAlternative(existing_distance, next_distance)
        THEN IF PathAlternativesAssert(with_refs, copy_ref, next_ref)
             THEN [inv |-> [popped EXCEPT
                               !.refs = @ \cup {copy_ref, next_ref}],
                   cells |-> [with_refs EXCEPT ![existing_path_ref] =
                                  PathAlternatives(copy_ref, next_ref)],
                   outgoing |-> out]
             ELSE [inv |-> [popped EXCEPT
                               !.pc = "failed",
                               !.refs = @ \cup {copy_ref, next_ref}],
                   cells |-> with_refs, outgoing |-> out]
        ELSE [inv |-> popped, cells |-> c, outgoing |-> out]

\* Lines 346-382.
PopOf(out, c, m, next_path) ==
    LET vertex == GetDestinationVertex(c, next_path)
    IN  IF IsSettled(m.shortest_paths, vertex)
        THEN PopSeenOf(out, c, m, next_path, vertex)
        ELSE LET path_ref == Len(c) + 1
                 new_cells == Append(c, next_path)
                 new_outgoing == OutgoingIndex(out, vertex)
                 out_edges == new_outgoing[vertex]
                 settled == [m EXCEPT
                               !.queue = @ \ {next_path},
                               !.shortest_paths = @ @@ (vertex :> path_ref),
                               !.refs = @ \cup {path_ref}]
             IN  IF \A i \in DOMAIN out_edges :
                       PathSequenceAssert(new_cells, path_ref, out_edges[i])
                 THEN [inv |-> [settled EXCEPT
                                  !.queue = @ \cup NewPaths(new_cells, path_ref,
                                                            out_edges)],
                       cells |-> new_cells, outgoing |-> new_outgoing]
                 ELSE [inv |-> [settled EXCEPT !.pc = "failed"],
                       cells |-> new_cells, outgoing |-> new_outgoing]

\* Lines 385-388.
ReturnOf(c, m) ==
    [m EXCEPT !.pc = "done", !.ret = Unpack(c, m.shortest_paths)]

\* ------------------------------------------- the second invocation's steps
\* A second call on the same Graph, with another vertex, made at any moment
\* after the first call was made.
OtherCalculateShortestPaths(s) ==
    /\ start # NoVertex
    /\ other.pc = "ready"
    /\ s # start
    /\ LET r == CallOf(outgoing, cells, vertices, s)
       IN  /\ other' = r.inv
           /\ cells' = r.cells
    /\ UNCHANGED <<graph_vars, pc, start, shortest_paths, queue, ret, npush,
                   npop>>

OtherPop ==
    /\ other.pc = "loop"
    /\ other.queue # {}
    /\ \E next_path \in other.queue :
         /\ IsNext(cells, other.queue, next_path)
         /\ LET r == PopOf(outgoing, cells, other, next_path)
            IN  /\ other' = r.inv
                /\ cells' = r.cells
                /\ outgoing' = r.outgoing
    /\ UNCHANGED <<vertices, edges, vertices_set, pc, start, shortest_paths,
                   queue, ret, npush, npop>>

OtherReturn ==
    /\ other.pc = "loop"
    /\ other.queue = {}
    /\ other' = ReturnOf(cells, other)
    /\ UNCHANGED <<graph_vars, pc, start, shortest_paths, cells, queue, ret,
                   npush, npop>>

\* ------------------------------------------------------------- inputs
\* Edge lists without a repeated (source, destination) tuple, listed in
\* the order of the tuples: tuple number t stands for the edge from
\* PairSource(t) to PairDestination(t).
PairSource(t) == ((t - 1) \div NumVertices) + 1

PairDestination(t) == ((t - 1) % NumVertices) + 1

RECURSIVE PairSeqs(_)
PairSeqs(n) ==
    IF n = 0 THEN {<<>>}
    ELSE LET shorter == PairSeqs(n - 1)
         IN  shorter \cup
             {Append(x[1], x[2]) :
                x \in {y \in shorter \X (1..(NumVertices * NumVertices)) :
                         /\ Len(y[1]) = n - 1
                         /\ n > 1 => y[1][n - 1] < y[2]}}

EdgeList(s, w) ==
    [i \in 1..Len(s) |-> Edge(PairSource(s[i]), PairDestination(s[i]), w[i])]

\* Vertex lists without a repeated label: every label, or every label but
\* the last (which may still be an endpoint of edges).
VertexLists == {[i \in 1..k |-> i] : k \in {NumVertices - 1, NumVertices}}

\* Lists as a caller may build them, repeated entries included: up to
\* MaxListLen labels, and up to MaxListLen edges with weights in Weights.
AnyVertexLists == UNION {[1..n -> Vertex] : n \in 0..MaxListLen}

AnyEdges == {Edge(t[1], t[2], t[3]) : t \in Vertex \X Vertex \X Weights}

AnyEdgeLists == UNION {[1..n -> AnyEdges] : n \in 0..MaxListLen}

\* The state before the program starts: the two lists the caller has built
\* and nothing else.
InitLists(vertex_lists, edge_lists) ==
    /\ vertices \in vertex_lists
    /\ edges \in edge_lists
    /\ vertices_set = {}
    /\ outgoing = EmptyMap
    /\ pc = "new"
    /\ start = NoVertex
    /\ shortest_paths = EmptyMap
    /\ cells = <<>>
    /\ queue = {}
    /\ ret = EmptyMap
    /\ npush = 0
    /\ npop = 0
    /\ other = NotCalled

\* Lists the constructor accepts, with weights from W and at most n edges.
InitWith(W, n) ==
    \E s \in PairSeqs(n) :
        \E w \in [1..Len(s) -> W] :
            InitLists(VertexLists, {EdgeList(s, w)})

Init == InitWith(Weights, MaxEdges)

Next ==
    \/ GraphInit
    \/ \E s \in Vertex : CalculateShortestPaths(s)
    \/ Pop
    \/ Return

Spec == Init /\ [][Next]_vars

\* The same program on edge lists that may hold negative weights, which the
\* constructor accepts as well (one edge less, for the larger weight set).
InitAnyWeight == InitWith(AnyWeights, MaxEdges - 1)

SpecAnyWeight == InitAnyWeight /\ [][Next]_vars

\* The program runs on: the constructor and the call are synchronous, and
\* nothing suspends the loop (spec section 5).  (One edge less than Spec,
\* for the cost of checking behaviours instead of states.)
InitFair == InitWith(Weights, MaxEdges - 1)

FairSpec == InitFair /\ [][Next]_vars /\ WF_vars(Next)

\* The same program on lists that may repeat a label or an edge.
InitCtor == InitLists(AnyVertexLists, AnyEdgeLists)

SpecCtor == InitCtor /\ [][Next]_vars

\* ------------------------------------------------- reference notions
\* What the claims compare the program with, computed from the edge list
\* alone and not by the search.

MinOf(S) == CHOOSE x \in S : \A y \in S : x <= y

\* More than the weight of any route without a repeated vertex.
Infinity == NumVertices * MaxWeight + 1

\* One round of relaxing every edge.
Relax(es, d) ==
    [v \in Vertex |->
        MinOf({d[v]} \cup
              {d[es[i].source_vertex] + es[i].distance :
                 i \in {j \in DOMAIN es :
                          /\ es[j].destination_vertex = v
                          /\ d[es[j].source_vertex] < Infinity}})]

RECURSIVE Relaxed(_, _, _)
Relaxed(es, d, k) == IF k = 0 THEN d ELSE Relaxed(es, Relax(es, d), k - 1)

\* The minimum total weight over all routes from s to each vertex, for
\* non-negative weights (Infinity where there is no route).
MinDistance(es, s) ==
    Relaxed(es, [v \in Vertex |-> IF v = s THEN 0 ELSE Infinity], NumVertices)

\* The vertices some chain of directed edges leads to from the set S.
RECURSIVE Closure(_, _)
Closure(es, S) ==
    LET T == S \cup {es[i].destination_vertex :
                        i \in {j \in DOMAIN es : es[j].source_vertex \in S}}
    IN  IF T = S THEN S ELSE Closure(es, T)

ReachableFrom(es, s) == Closure(es, {s})

\* The weight of the edge from u to v (the constructor admits one at most).
EdgeWeight(es, u, v) ==
    LET i == CHOOSE j \in DOMAIN es :
                 es[j].source_vertex = u /\ es[j].destination_vertex = v
    IN  es[i].distance

HasEdge(es, u, v) ==
    \E j \in DOMAIN es : es[j].source_vertex = u /\ es[j].destination_vertex = v

\* A route from s is written as expand() writes it: the vertices after s.
\* Whether the chain s, r[1], r[2], ... follows an edge at every step, and
\* the sum of the weights of those edges.
FollowsEdges(es, s, r) ==
    \A i \in DOMAIN r : HasEdge(es, IF i = 1 THEN s ELSE r[i - 1], r[i])

RECURSIVE RouteWeight(_, _, _)
RouteWeight(es, s, r) ==
    IF r = <<>> THEN 0
    ELSE LET n == Len(r)
             u == IF n = 1 THEN s ELSE r[n - 1]
         IN  RouteWeight(es, s, SubSeq(r, 1, n - 1)) + EdgeWeight(es, u, r[n])

\* The routes from s of exactly n edges that visit no vertex twice (and do
\* not come back to s).
RECURSIVE SimpleRoutes(_, _, _)
SimpleRoutes(es, s, n) ==
    IF n = 0 THEN {<<>>}
    ELSE {Append(r, es[i].destination_vertex) :
            <<r, i>> \in
              {x \in SimpleRoutes(es, s, n - 1) \X DOMAIN es :
                 /\ es[x[2]].source_vertex =
                       (IF x[1] = <<>> THEN s ELSE x[1][Len(x[1])])
                 /\ es[x[2]].destination_vertex \notin Range(x[1]) \cup {s}}}

\* The distinct minimum-weight routes from s to v # s.
MinimalRoutes(es, s, v) ==
    {r \in UNION {SimpleRoutes(es, s, n) : n \in 1..(NumVertices - 1)} :
        /\ r[Len(r)] = v
        /\ RouteWeight(es, s, r) = MinDistance(es, s)[v]}

\* Some cycle of the graph (a self-loop included) has total weight 0.
ZeroEdges(es) == SelectSeq(es, LAMBDA e : e.distance = 0)

HasZeroCycle(es) ==
    \E i \in DOMAIN es :
        /\ es[i].distance = 0
        /\ es[i].source_vertex
              \in Closure(ZeroEdges(es), {es[i].destination_vertex})

NoRepeats(x) == \A i, j \in DOMAIN x : i # j => x[i] # x[j]

Returned == pc = "done"

Keys == DOMAIN ret

\* ----------------------------------------------------------------- C1
\* C1: when calculate_shortest_paths(source) returns (the weights being
\* non-negative and source a member), every key v of the returned map holds
\* a path whose get_distance() is the minimum total edge weight over all
\* routes from source to v, and the entry of source has distance 0.
C1_MinimumDistances ==
    Returned =>
        /\ start \in Keys
        /\ GetDistance(cells, ret[start]) = 0
        /\ LET d == MinDistance(edges, start)
           IN  \A v \in Keys : GetDistance(cells, ret[v]) = d[v]

\* A returned map in which the direct edge to some vertex is not the
\* shortest route to it.
C1_Witness ==
    /\ Returned
    /\ \E i \in DOMAIN edges :
          /\ edges[i].source_vertex = start
          /\ edges[i].destination_vertex \in Keys \ {start}
          /\ GetDistance(cells, ret[edges[i].destination_vertex])
                < edges[i].distance

\* ----------------------------------------------------------------- C3
\* C3: the keys of the returned map are exactly the vertices reachable from
\* source along directed edges, together with source.
C3_KeysAreReachable ==
    Returned => Keys = ReachableFrom(edges, start)

\* A returned map with a key two edges away from source, while some vertex
\* that has an outgoing edge is unreachable and so no key.
C3_Witness ==
    /\ Returned
    /\ \E v \in Keys : ret[v].type = "PathSequence"
    /\ \E i \in DOMAIN edges : edges[i].source_vertex \notin Keys

\* ----------------------------------------------------------------- C2
\* What expand() has to yield for key v: one sequence per distinct
\* minimum-weight route, the route of source to itself being written
\* <<source>> (test_graph.py line 80).
ExpectedRoutes(v) ==
    IF v = start THEN {<<start>>} ELSE MinimalRoutes(edges, start, v)

TiePreserved(v) ==
    LET x == Expand(cells, ret[v])
    IN  /\ ExpandIsFinite(cells, ret[v])
        /\ NoRepeats(x)
        /\ Range(x) = ExpectedRoutes(v)

\* C2: tie preservation: for every key v of the returned map, expand()
\* ends and yields exactly one sequence per distinct minimum-weight route
\* from source to v: none omitted, none that is not minimal, none twice.
C2_TiePreservation == Returned => \A v \in Keys : TiePreserved(v)

\* The same for the graphs in which no cycle has total weight 0.
TiePreservationWithoutZeroCycle ==
    (Returned /\ ~HasZeroCycle(edges)) => \A v \in Keys : TiePreserved(v)

\* ----------------------------------------------------------------- C4
\* C4 as stated: every returned path, the entry of source included, yields
\* at least one sequence, and every sequence does not contain source and
\* ends at the path's destination.
C4_Original ==
    Returned =>
        \A v \in Keys :
            LET x == Expand(cells, ret[v])
            IN  /\ Len(x) >= 1
                /\ \A i \in DOMAIN x :
                      /\ start \notin Range(x[i])
                      /\ x[i][Len(x[i])] = v

\* C4 (amended): every returned path, the entry of source included, yields
\* at least one sequence, and every sequence ends at the path's destination;
\* the sequences of every entry but that of source do not contain source
\* (the entry of source yields <<source>>).  Of an expand() that does not
\* end, the sequences within Len(cells) + 1 nested calls are checked.
C4_ExpandShape ==
    Returned =>
        \A v \in Keys :
            LET x == Expand(cells, ret[v])
            IN  /\ Len(x) >= 1
                /\ \A i \in DOMAIN x :
                      /\ v # start => start \notin Range(x[i])
                      /\ x[i][Len(x[i])] = v

\* A returned entry of another vertex than source that merges tied routes,
\* in a graph with an edge back to source and no zero-weight cycle.
C4_Witness ==
    /\ Returned
    /\ ~HasZeroCycle(edges)
    /\ \E v \in Keys \ {start} :
          /\ ret[v].type = "PathAlternatives"
          /\ Len(Expand(cells, ret[v])) >= 2
    /\ \E i \in DOMAIN edges :
          /\ edges[i].destination_vertex = start
          /\ edges[i].source_vertex \in Keys \ {start}

\* ----------------------------------------------------------------- C5
SameLength(x) == \A i, j \in DOMAIN x : Len(x[i]) = Len(x[j])

\* C5 as stated: all sequences one expand() call yields have the same
\* length, also for a PathAlternatives that merges tied routes.  (Stated
\* for the graphs without a zero-weight cycle, in which every expand()
\* ends and Expand is all it yields.)
C5_Original ==
    (Returned /\ ~HasZeroCycle(edges)) =>
        \A v \in Keys : SameLength(Expand(cells, ret[v]))

\* Every edge of the graph has the same weight, and it is positive.
UniformPositiveWeight(es) ==
    \A i, j \in DOMAIN es :
        es[i].distance > 0 /\ es[i].distance = es[j].distance

\* C5 (amended): when all edges of the graph have the same positive weight,
\* all sequences one expand() call yields have the same length, also for a
\* PathAlternatives that merges tied routes, and for every entry but that
\* of source that length is the hop count: length times the edge weight is
\* the path's distance.
C5_SameLengthUniformWeight ==
    (Returned /\ UniformPositiveWeight(edges)) =>
        \A v \in Keys :
            LET x == Expand(cells, ret[v])
            IN  /\ SameLength(x)
                /\ v # start =>
                      \A i \in DOMAIN x :
                          Len(x[i]) * edges[1].distance
                             = GetDistance(cells, ret[v])

\* Equal positive weights and a returned PathAlternatives of two routes.
C5_Witness ==
    /\ Returned
    /\ UniformPositiveWeight(edges)
    /\ \E v \in Keys :
          /\ ret[v].type = "PathAlternatives"
          /\ Len(Expand(cells, ret[v])) >= 2

\* ----------------------------------------------------------------- C6
RouteOfGraph(v, r) ==
    /\ FollowsEdges(edges, start, r)
    /\ RouteWeight(edges, start, r) = GetDistance(cells, ret[v])

\* C6 as stated: for every returned path and every sequence s it yields,
\* the chain source, s[1], s[2], ... follows an edge of the graph at every
\* step and the weights of those edges sum to the path's get_distance().
C6_Original ==
    Returned =>
        \A v \in Keys :
            LET x == Expand(cells, ret[v])
            IN  \A i \in DOMAIN x : RouteOfGraph(v, x[i])

\* C6 (amended): the same for every returned path but the entry of source
\* (whose implicit path yields <<source>>, which follows no edge unless the
\* graph has a self-loop at source).  Of an expand() that does not end, the
\* sequences within Len(cells) + 1 nested calls are checked.
C6_RoutesFollowEdges ==
    Returned =>
        \A v \in Keys \ {start} :
            LET x == Expand(cells, ret[v])
            IN  \A i \in DOMAIN x : RouteOfGraph(v, x[i])

\* A returned entry that merges two routes with different numbers of edges,
\* in a graph without a zero-weight cycle.
C6_Witness ==
    /\ Returned
    /\ ~HasZeroCycle(edges)
    /\ \E v \in Keys \ {start} :
          LET x == Expand(cells, ret[v])
          IN  /\ ret[v].type = "PathAlternatives"
              /\ \E i, j \in DOMAIN x : Len(x[i]) < Len(x[j])

\* ----------------------------------------------------------------- C7
\* C7: expand() of the returned entry of source yields exactly one
\* sequence, and that sequence is source alone.
C7_SourceEntry ==
    Returned => Expand(cells, ret[start]) = << <<start>> >>

\* ----------------------------------------------------------------- C8
Called == start # NoVertex

InVertexList(v) == \E i \in DOMAIN vertices : vertices[i] = v

\* C8: a call with a vertex that is not in the vertex list fails at once:
\* no queue entry, no _PathRef and no result entry exists, and no map is
\* returned.  And a call fails or returns the full map, never part of it:
\* a failed call has returned no map, and a returned map was returned from
\* an empty queue and holds every vertex reachable from start.
C8_FailsOrReturnsAll ==
    /\ (Called /\ ~InVertexList(start)) =>
          /\ pc = "failed"
          /\ queue = {} /\ npush = 0 /\ npop = 0
          /\ cells = <<>>
          /\ shortest_paths = EmptyMap
          /\ ret = EmptyMap
    /\ pc = "failed" => ret = EmptyMap
    /\ ret # EmptyMap =>
          /\ pc = "done"
          /\ queue = {}
          /\ DOMAIN ret = DOMAIN shortest_paths
          /\ DOMAIN ret = ReachableFrom(edges, start)

\* A failed call whose vertex is not in the vertex list although it has an
\* outgoing edge.
C8_Witness ==
    /\ pc = "failed"
    /\ ~InVertexList(start)
    /\ \E i \in DOMAIN edges : edges[i].source_vertex = start

\* A call that fails in the loop, after vertices were settled.
FailsInLoop == pc = "failed" /\ Cardinality(DOMAIN shortest_paths) >= 2

\* ----------------------------------------------------------------- C9
Constructed == pc \notin {"new", "ctor_failed"}

RepeatedLabel == Cardinality(Range(vertices)) < Len(vertices)

RepeatedPair ==
    Cardinality({<<edges[i].source_vertex, edges[i].destination_vertex>> :
                    i \in DOMAIN edges}) < Len(edges)

\* C9: the constructor fails when the vertex list holds two equal vertices
\* and when the edge list holds two edges with the same (source,
\* destination) pair, whatever their weights; it fails for nothing else, so
\* two edges between the same vertices in opposite directions, and
\* self-loops, are accepted.
C9_DuplicatesRejected ==
    /\ pc = "ctor_failed" => (RepeatedLabel \/ RepeatedPair)
    /\ Constructed => (~RepeatedLabel /\ ~RepeatedPair)

\* The constructor has failed on two edges with the same pair and different
\* weights, the labels being distinct.
C9_Witness ==
    /\ pc = "ctor_failed"
    /\ ~RepeatedLabel
    /\ \E i, j \in DOMAIN edges :
          /\ EdgeTuple(edges[i]) = EdgeTuple(edges[j])
          /\ edges[i].distance # edges[j].distance

\* A graph was constructed from two opposite edges, and one from a
\* self-loop.
ConstructedWithOpposite ==
    /\ Constructed
    /\ \E i, j \in DOMAIN edges :
          /\ edges[i].source_vertex # edges[i].destination_vertex
          /\ edges[i].source_vertex = edges[j].destination_vertex
          /\ edges[i].destination_vertex = edges[j].source_vertex

ConstructedWithSelfLoop ==
    /\ Constructed
    /\ \E i \in DOMAIN edges :
          edges[i].source_vertex = edges[i].destination_vertex

PushesBounded ==
    /\ npop <= npush
    /\ npush <= Len(edges)
    /\ Cardinality(queue) = npush - npop
    /\ Returned => npop = npush

\* ---------------------------------------------------------------- C11
\* C11: calculate_shortest_paths leaves the Graph unchanged: after any call,
\* successful or failed, the vertex set and the adjacency index, the set of
\* its keys included, are what the constructor built from the two lists
\* (which no step assigns): vertices without outgoing edges stay absent.
C11_GraphUnchanged ==
    Called =>
        /\ vertices_set = Range(vertices)
        /\ outgoing = OutgoingEdges(edges)

\* What is left of it: the index maps every vertex to the edge list it
\* mapped it to after construction, an absent key counted as an empty list.
GraphUnchangedUpToEmptyKeys ==
    Called =>
        /\ vertices_set = Range(vertices)
        /\ \A v \in Vertex :
              OutgoingGet(outgoing, v) = OutgoingGet(OutgoingEdges(edges), v)

\* The index has a key the constructor did not give it.
IndexHasNewKey ==
    Called /\ DOMAIN outgoing # DOMAIN OutgoingEdges(edges)

\* ---------------------------------------------------------------- C12
\* Two invocations on one Graph, their steps interleaved in every order
\* (one vertex and one edge less than Spec, for the second invocation).
FewerVertices == 1..(NumVertices - 1)

InitTwo ==
    \E s \in {x \in PairSeqs(MaxEdges - 1) :
                \A i \in DOMAIN x :
                    /\ PairSource(x[i]) \in FewerVertices
                    /\ PairDestination(x[i]) \in FewerVertices} :
        \E w \in [1..Len(s) -> Weights] :
            InitLists({[i \in FewerVertices |-> i]}, {EdgeList(s, w)})

NextTwo ==
    \/ Next
    \/ \E s \in Vertex : OtherCalculateShortestPaths(s)
    \/ OtherPop
    \/ OtherReturn

SpecTwo == InitTwo /\ [][NextTwo]_vars

\* The first invocation, as the step functions see an invocation.
Mine ==
    Invocation(pc, start, shortest_paths, queue, ret,
               (1..Len(cells)) \ other.refs)

\* The actions of the first invocation are the step functions applied to
\* it: every call, pop and return changes the invocation, the _PathRef
\* objects and the index as CallOf, PopOf and ReturnOf say.
StepsAgree ==
    [][/\ (pc = "ready" /\ pc' # "ready") =>
             CallOf(outgoing, cells, vertices, start')
                = [inv |-> Mine', cells |-> cells', outgoing |-> outgoing']
       /\ (npop' # npop) =>
             \E p \in queue :
                /\ IsNext(cells, queue, p)
                /\ PopOf(outgoing, cells, Mine, p)
                      = [inv |-> Mine', cells |-> cells',
                         outgoing |-> outgoing']
       /\ (pc = "loop" /\ pc' = "done") =>
             /\ Mine' = ReturnOf(cells, Mine)
             /\ UNCHANGED <<cells, outgoing>>]_vars

\* Of an expand() that does not end, the sequences of at most ViewLength
\* labels are looked at.
ViewLength == NumVertices + 1

\* What a caller sees of a finished invocation: how it ended, the keys of
\* the returned map, and per key the distance and the sequences expand()
\* yields (of an expand() that does not end: those of at most ViewLength
\* labels).
View(c, m) ==
    [pc |-> m.pc,
     entries |->
        [v \in DOMAIN m.ret |->
            LET finite == ExpandIsFinite(c, m.ret[v])
            IN  [distance |-> GetDistance(c, m.ret[v]),
                 finite |-> finite,
                 routes |-> IF finite THEN Expand(c, m.ret[v])
                            ELSE ExpandWithin(c, m.ret[v], ViewLength)]]]

\* The invocation run to its end with nothing else running, for every order
\* in which the queue may return paths of equal distance.
RECURSIVE RunsFrom(_, _, _)
RunsFrom(out, c, m) ==
    IF m.pc # "loop" THEN {View(c, m)}
    ELSE IF m.queue = {} THEN {View(c, ReturnOf(c, m))}
    ELSE UNION {LET r == PopOf(out, c, m, p)
                IN  RunsFrom(r.outgoing, r.cells, r.inv) :
                   p \in {q \in m.queue : IsNext(c, m.queue, q)}}

\* What calculate_shortest_paths(s) may return on the Graph as constructed.
RunAlone(s) ==
    LET r == CallOf(OutgoingEdges(edges), <<>>, vertices, s)
    IN  RunsFrom(r.outgoing, r.cells, r.inv)

Finished(m) == m.pc \in {"done", "failed"}

\* The _PathRef objects reachable from an invocation's queue, settled
\* entries and returned map.
CellsOf(c, m) ==
    LET held == {m.shortest_paths[v] : v \in DOMAIN m.shortest_paths}
        paths == m.queue \cup {m.ret[v] : v \in DOMAIN m.ret}
                         \cup {c[i] : i \in held}
    IN  held \cup UNION {ReachableCells(c, p) : p \in paths}

\* C12: for any interleaving of the steps of two computations on the same
\* Graph from different source vertices, each one ends as it ends when run
\* alone, with the same keys, distances and expanded routes, and no
\* _PathRef created by one is reachable from the other's queue or result.
C12_Isolation ==
    /\ Finished(Mine) => View(cells, Mine) \in RunAlone(start)
    /\ Finished(other) => View(cells, other) \in RunAlone(other.start)
    /\ CellsOf(cells, Mine) \cap other.refs = {}
    /\ CellsOf(cells, other) \subseteq other.refs

\* Both have returned; their _PathRef objects were created alternately, both
\* settled a vertex that is the source of neither, one of them into a tie,
\* and the index got a key from one of them.
C12_Witness ==
    /\ pc = "done"
    /\ other.pc = "done"
    /\ \E i, j, k, l \in 1..Len(cells) :
          /\ i < j /\ j < k /\ k < l
          /\ {i, k} \cap other.refs = {}
          /\ {j, l} \subseteq other.refs
    /\ \E v \in (DOMAIN ret \cap DOMAIN other.ret) \ {start, other.start} :
          ret[v].type = "PathAlternatives"
    /\ DOMAIN outgoing # DOMAIN OutgoingEdges(edges)

\* ---------------------------------------------------------------- C13
\* What the _PathSequence in cell i yields if it yields, for every sequence
\* the entry of v yields, that sequence followed by its edge's destination.
YieldsEntryExtended(i, v) ==
    LET entry == Expand(cells, cells[shortest_paths[v]])
    IN  ExpandTo(cells, cells[i], Len(cells) + 2)
           = [k \in 1..Len(entry) |->
                 Append(entry[k], cells[i].added_edge.destination_vertex)]

\* The step replaces the content of the cell of a settled vertex.
Upgrades(v) ==
    /\ v \in DOMAIN shortest_paths
    /\ shortest_paths' = shortest_paths
    /\ cells'[shortest_paths[v]] # cells[shortest_paths[v]]

\* C13: in-place upgrade is seen by earlier holders.  Every _PathSequence
\* built when v was settled holds the cell of v, the one a later tie at v
\* replaces the content of, so that after the search it yields, for every
\* sequence p the final entry of v yields (old and added alternatives
\* alike), p followed by its edge's destination; and the upgrade puts the
\* pre-upgrade path into a new cell, the first of the new PathAlternatives,
\* which is not the cell of v and is not written again.
C13_UpgradeSeen ==
    /\ [](Returned =>
            \A i \in DOMAIN cells :
                cells[i].type = "PathSequence" =>
                    LET v == cells[i].added_edge.source_vertex
                    IN  /\ v \in Keys
                        /\ cells[i].base_path_ref = shortest_paths[v]
                        /\ ret[v] = cells[shortest_paths[v]]
                        /\ YieldsEntryExtended(i, v))
    /\ [][\A v \in Vertex :
            Upgrades(v) =>
                LET ref == shortest_paths[v]
                IN  /\ cells'[ref].type = "PathAlternatives"
                    /\ cells'[ref].path1 \notin DOMAIN cells
                    /\ cells'[cells'[ref].path1] = cells[ref]
                    /\ cells'[cells'[ref].path2] \in queue
                    /\ \A i \in DOMAIN cells \ {ref} : cells'[i] = cells[i]]_vars

\* A returned _PathSequence built on the cell of a vertex at which a tie was
\* found later, in a graph without a zero-weight cycle: it yields one
\* sequence per alternative.
C13_Witness ==
    /\ Returned
    /\ ~HasZeroCycle(edges)
    /\ \E w \in Keys :
          /\ ret[w].type = "PathSequence"
          /\ cells[ret[w].base_path_ref].type = "PathAlternatives"
          /\ Len(Expand(cells, ret[w])) >= 2

\* ---------------------------------------------------------------- C14
\* The assertion of line 355 and those of _PathAlternatives.__init__ hold
\* for the queued path p if it is popped now.
PopAssertsHold(p) ==
    LET vertex == GetDestinationVertex(cells, p)
    IN  IsSettled(shortest_paths, vertex) =>
            LET existing_path == cells[shortest_paths[vertex]]
            IN  /\ GetDistance(cells, existing_path) <= GetDistance(cells, p)
                /\ GetDistance(cells, existing_path) = GetDistance(cells, p) =>
                      PathAlternativesAssert(cells \o <<existing_path, p>>,
                                             Len(cells) + 1, Len(cells) + 2)

\* How many pops found a tie (two cells each), and how many were dominated.
TiesFound == (Len(cells) - Cardinality(DOMAIN shortest_paths)) \div 2

DominatedPops == npop - (Cardinality(DOMAIN shortest_paths) - 1) - TiesFound

\* C14: for every accepted graph with non-negative weights and every member
\* source no internal assertion is violated at any step of the search: a
\* call fails only for a vertex that is not in the vertex list; whichever
\* queued path is popped next, the recorded distance of a settled
\* destination is not above its distance, and at equal distance the two
\* paths have equal source, destination and distance; every _PathSequence
\* queued or stored has a base path that ends at its edge's source; every
\* _PathAlternatives stored holds two paths of equal source, destination
\* and distance.
C14_NoAssertionFails ==
    /\ pc = "failed" => ~InVertexList(start)
    /\ pc = "loop" => \A p \in queue : PopAssertsHold(p)
    /\ \A p \in queue \cup Range(cells) :
          /\ p.type = "PathSequence" =>
                PathSequenceAssert(cells, p.base_path_ref, p.added_edge)
          /\ p.type = "PathAlternatives" =>
                PathAlternativesAssert(cells, p.path1, p.path2)

\* A search that returned after a pop that found a tie, a pop that was
\* dominated, and the settling of a _PathSequence.
C14_Witness ==
    /\ Returned
    /\ TiesFound >= 1
    /\ DominatedPops >= 1
    /\ \E v \in Keys : ret[v].type = "PathSequence"

\* ---------------------------------------------------------------- C15
\* The edge a queued path was pushed for.
PushedEdge(p) == IF p.type = "Edge" THEN p ELSE p.added_edge

\* The edges of the graph that leave the vertex v, by the edge list.
EdgesFrom(v) == {edges[i] : i \in {j \in DOMAIN edges : edges[j].source_vertex = v}}

\* The step is the call: the queue is seeded with the Edge objects of the
\* outgoing edges of the source, one each.
SeedingStep ==
    (pc = "ready" /\ pc' = "loop") =>
        /\ queue' = EdgesFrom(start')
        /\ npush' = Cardinality(EdgesFrom(start'))

\* The step is a pop of the path p.
PopStepOf(p) ==
    LET vertex == GetDestinationVertex(cells, p)
    IN  IF vertex \in DOMAIN shortest_paths
        THEN /\ queue' = queue \ {p}
             /\ npush' = npush
             /\ shortest_paths' = shortest_paths
             /\ GetDistance(cells, cells[shortest_paths[vertex]])
                   < GetDistance(cells, p) => cells' = cells
        ELSE /\ queue' \ queue =
                   {PathSequence(cells', shortest_paths'[vertex], e) :
                       e \in EdgesFrom(vertex)}
             /\ queue \ queue' = {p}
             /\ npush' = npush + Cardinality(EdgesFrom(vertex))

PoppingStep ==
    (npop' # npop) =>
        \E p \in queue : p \notin queue' /\ PopStepOf(p)

\* C15: paths are put on the queue only when seeding (one Edge per outgoing
\* edge of source) and when a popped path's destination has no entry yet
\* (one _PathSequence per outgoing edge of that vertex); a pop whose
\* destination is settled pushes nothing, a dominated pop also leaves the
\* result map and every cell unchanged, and no other step pushes; so each
\* edge is pushed at most once: the pushes so far are the edges that leave
\* a settled vertex, and no two queued paths were pushed for one edge.
C15_PushDiscipline ==
    /\ [][/\ SeedingStep
          /\ PoppingStep
          /\ (~(pc = "ready" /\ pc' = "loop") /\ npop' = npop) =>
                UNCHANGED <<queue, npush>>]_vars
    /\ [](pc \in {"loop", "done"} =>
            /\ npush = Cardinality(UNION {EdgesFrom(v) :
                                             v \in DOMAIN shortest_paths})
            /\ \A p, q \in queue : PushedEdge(p) = PushedEdge(q) => p = q
            /\ \A p \in queue :
                  PushedEdge(p).source_vertex \in DOMAIN shortest_paths)

\* A search that returned after a dominated pop, having pushed a
\* _PathSequence, in a graph with an edge that was never pushed.
C15_Witness ==
    /\ Returned
    /\ DominatedPops >= 1
    /\ npush > Cardinality(EdgesFrom(start))
    /\ npush < Len(edges)

\* ---------------------------------------------------------------- C16
\* The multiset of the members of a sequence: each member with how often
\* it occurs.
BagOf(x) == [r \in Range(x) |-> Cardinality({i \in DOMAIN x : x[i] = r})]

\* A view with the sequences of each key as a multiset.
Unordered(view) ==
    [pc |-> view.pc,
     entries |->
        [v \in DOMAIN view.entries |->
            [distance |-> view.entries[v].distance,
             finite |-> view.entries[v].finite,
             routes |-> BagOf(view.entries[v].routes)]]]

SameOrderWhateverTies ==
    Returned => \A x \in RunAlone(start) : x = View(cells, Mine)

HasNegativeCycleFrom(es, s) ==
    Relax(es, MinDistance(es, s)) # MinDistance(es, s)

HasNegativeEdge(es) == \E i \in DOMAIN es : es[i].distance < 0

\* The step fails the search.
FailsSearch == pc = "loop" /\ pc' = "failed"

\* The step pops a path to a settled vertex whose recorded distance is above
\* the path's, and changes no cell and no entry.
FailsDistanceCheck ==
    \E p \in queue :
        /\ IsNext(cells, queue, p)
        /\ LET vertex == GetDestinationVertex(cells, p)
           IN  /\ vertex \in DOMAIN shortest_paths
               /\ GetDistance(cells, cells[shortest_paths[vertex]])
                     > GetDistance(cells, p)
        /\ cells' = cells
        /\ shortest_paths' = shortest_paths

FailedOnNegativeEdge ==
    pc = "failed" /\ InVertexList(start) /\ HasNegativeEdge(edges)

\* ---------------------------------------------------------------- C18
\* C18: for every graph with non-negative weights, zero-weight edges,
\* self-loops and cycles included, the cells reachable from any returned
\* path form no cycle (no cell's content reaches that same cell again
\* through base or alternative references), so expand() on every returned
\* path yields finitely many sequences, each of finite length.
C18_NoCellCycle ==
    Returned => \A v \in Keys : ExpandIsFinite(cells, ret[v])

\* The same for the graphs in which no cycle has total weight 0.
NoCellCycleWithoutZeroCycle ==
    (Returned /\ ~HasZeroCycle(edges)) =>
        \A v \in Keys : ExpandIsFinite(cells, ret[v])

\* ---------------------------------------------------------------- C19
\* C19: for every graph the constructor accepts, every key of the returned
\* map is a member of the vertex list the graph was constructed with: the
\* search never settles a vertex that is only an endpoint of an edge.
C19_KeysAreVertices ==
    Returned => Keys \subseteq Range(vertices)

\* Every endpoint of every edge is in the vertex list.
EndpointsAreVertices ==
    \A i \in DOMAIN edges :
        /\ edges[i].source_vertex \in Range(vertices)
        /\ edges[i].destination_vertex \in Range(vertices)

\* The same for the graphs whose edges join vertices of the vertex list.
KeysAreVerticesOfClosedGraph ==
    (Returned /\ EndpointsAreVertices) => Keys \subseteq Range(vertices)

====
